---- MODULE Spec2Model ----
(***************************************************************************)
(* getgauge: discovery of @step functions in a parsed Python file          *)
(* (parser_redbaron.py) and the reload of a file's steps into the          *)
(* registry (static_loader.py).                                            *)
(*                                                                         *)
(* Source text is a sequence of one-character strings.  A parsed file is   *)
(* the sequence of its top-level nodes; a node keeps its decorators, each  *)
(* decorator the argument nodes of its call, each argument node the source *)
(* text of its literal(s).                                                 *)
(***************************************************************************)
EXTENDS Integers, Sequences, FiniteSets, TLC

VARIABLES pf, before, call, result, log, registry, lastGood

vars == <<pf, before, call, result, log, registry, lastGood>>

\* Largest number of top-level nodes of a file.
MaxNodes == 2

----------------------------------------------------------------------------
(* Text *)

Quote == "'"

A == <<"a">>
U == <<"u">>
AA == <<"a", "a">>
NoText == <<>>

\* 'text'
Lit(t) == <<Quote>> \o t \o <<Quote>>
\* u'text'
ULit(t) == <<"u">> \o Lit(t)

RECURSIVE Join(_, _)
Join(parts, sep) ==
    IF parts = <<>> THEN <<>>
    ELSE IF Len(parts) = 1 THEN parts[1]
    ELSE parts[1] \o sep \o Join(Tail(parts), sep)

CommaSpace == <<",", " ">>

RECURSIVE Interleave(_, _)
Interleave(s, new) ==
    IF s = <<>> THEN new ELSE new \o <<Head(s)>> \o Interleave(Tail(s), new)

\* Python str.replace: every non-overlapping occurrence, left to right; an
\* empty old matches before every character and at the end.
RECURSIVE ReplaceFrom(_, _, _)
ReplaceFrom(s, old, new) ==
    IF Len(s) < Len(old) THEN s
    ELSE IF SubSeq(s, 1, Len(old)) = old
         THEN new \o ReplaceFrom(SubSeq(s, Len(old) + 1, Len(s)), old, new)
         ELSE <<Head(s)>> \o ReplaceFrom(Tail(s), old, new)

Replace(s, old, new) ==
    IF old = <<>> THEN Interleave(s, new) ELSE ReplaceFrom(s, old, new)

DigitChars == <<"0", "1", "2", "3", "4", "5", "6", "7", "8", "9">>

RECURSIVE Decimal(_)
Decimal(n) ==
    IF n < 10 THEN <<DigitChars[n + 1]>>
    ELSE Decimal(n \div 10) \o <<DigitChars[(n % 10) + 1]>>

\* 'arg{}'.format(i)
ArgNameFromZero(i) == <<"a", "r", "g">> \o Decimal(i)

\* 'arg{}'.format(i + 1)
ArgName(i) == <<"a", "r", "g">> \o Decimal(i + 1)

----------------------------------------------------------------------------
(* Python values of a decorator argument *)

None == [kind |-> "none", str |-> <<>>, list |-> <<>>]
PyStr(t) == [kind |-> "str", str |-> t, list |-> <<>>]
PyList(l) == [kind |-> "list", str |-> <<>>, list |-> l]
PyOther == [kind |-> "other", str |-> <<>>, list |-> <<>>]

\* The failure of a literal evaluation (ValueError, SyntaxError).
Raised == [kind |-> "raised", str |-> <<>>, list |-> <<>>]

\* The test `step is not None`.
IsNotNone(v) == v.kind # "none"

\* Truth value of a resolved step: None, '' and [] are false.
Truthy(v) ==
    \/ v.kind = "str" /\ v.str # <<>>
    \/ v.kind = "list" /\ v.list # <<>>
    \/ v.kind = "other"

\* literal_eval of the source text of a string node: an optional u prefix, an
\* opening quote, a content free of quotes, the closing quote.
StringToPython(src) ==
    LET body == IF src # <<>> /\ Head(src) = "u" THEN Tail(src) ELSE src
    IN  IF /\ Len(body) >= 2
           /\ body[1] = Quote
           /\ body[Len(body)] = Quote
           /\ \A i \in 2..(Len(body) - 1) : body[i] # Quote
        THEN PyStr(SubSeq(body, 2, Len(body) - 1))
        ELSE Raised

\* node.to_python() of an argument node.
to_python(node) ==
    CASE node.type = "string" -> StringToPython(node.elems[1])
      [] node.type = "list" ->
            IF \A i \in 1..Len(node.elems) : StringToPython(node.elems[i]).kind = "str"
            THEN PyList([i \in 1..Len(node.elems) |-> StringToPython(node.elems[i]).str])
            ELSE Raised
      [] node.type \in {"int", "dict"} -> PyOther
      [] OTHER -> Raised

----------------------------------------------------------------------------
(* Discovery *)

StepName == <<"s", "t", "e", "p">>
OtherName == <<"o", "t", "h", "e", "r">>

OneArgument == "Decorator step accepts only one argument"
StringOrList == "Decorator step accepts either a string or a list of strings"

\* Index of the first decorator of the node named step, 0 when none.
FirstStepDecorator(node) ==
    LET hits == {j \in 1..Len(node.decorators) : node.decorators[j].name = StepName}
    IN  IF hits = {} THEN 0 ELSE CHOOSE j \in hits : \A h \in hits : j <= h

\* The (function, decorator) pairs of the file, in source order.
RECURSIVE PairsFrom(_, _)
PairsFrom(tree, k) ==
    IF k > Len(tree) THEN <<>>
    ELSE IF tree[k].type = "def" /\ FirstStepDecorator(tree[k]) # 0
         THEN <<[func |-> k, decorator |-> FirstStepDecorator(tree[k])]>>
                  \o PairsFrom(tree, k + 1)
         ELSE PairsFrom(tree, k + 1)

iter_step_func_decorators(tree) == PairsFrom(tree, 1)

\* The resolver that reports nothing for a call without one argument.
step_decorator_args_silent(decorator) ==
    LET args == decorator.call
    IN  IF Len(args) = 1
        THEN LET v == to_python(args[1])
             IN  IF v.kind \in {"str", "list"}
                 THEN [step |-> v, errors |-> <<>>]
                 ELSE [step |-> None, errors |-> <<StringOrList>>]
        ELSE [step |-> None, errors |-> <<>>]

\* The resolved argument of a step decorator and the error it logs, if any.
step_decorator_args(decorator) ==
    LET args == decorator.call
    IN  IF Len(args) = 1
        THEN LET v == to_python(args[1])
             IN  IF v.kind \in {"str", "list"}
                 THEN [step |-> v, errors |-> <<>>]
                 ELSE [step |-> None, errors |-> <<StringOrList>>]
        ELSE [step |-> None, errors |-> <<OneArgument>>]

DecoratorAt(tree, p) == tree[p.func].decorators[p.decorator]

LogEntries(p, errors) == [i \in 1..Len(errors) |-> [func |-> p.func, msg |-> errors[i]]]

\* iter_steps consumed to its end: the records yielded and the errors logged.
RECURSIVE StepsFrom(_, _, _)
StepsFrom(file, pairs, i) ==
    IF i > Len(pairs) THEN [yielded |-> <<>>, errors |-> <<>>]
    ELSE LET p == pairs[i]
             r == step_decorator_args(DecoratorAt(file.py_tree, p))
             rest == StepsFrom(file, pairs, i + 1)
             rec == [steps |-> r.step, func |-> file.py_tree[p.func].name,
                     file_path |-> file.file_path, span |-> p.func]
         IN  [yielded |-> (IF Truthy(r.step) THEN <<rec>> ELSE <<>>) \o rest.yielded,
              errors |-> LogEntries(p, r.errors) \o rest.errors]

iter_steps(file) == StepsFrom(file, iter_step_func_decorators(file.py_tree), 1)

----------------------------------------------------------------------------
(* Positions *)

Max(a, b) == IF a >= b THEN a ELSE b

RECURSIVE SumLen(_, _)
\* Total length of the first n texts of parts, each followed by extra characters.
SumLen(parts, n) ==
    IF n = 0 THEN 0 ELSE SumLen(parts, n - 1) + Len(parts[n]) + Len(CommaSpace)

Height(node) == Len(node.decorators) + 2

RECURSIVE FirstLine(_, _)
\* Line of the first line of node k: every node is its decorator lines, its
\* header line and one body line.
FirstLine(tree, k) == IF k = 1 THEN 1 ELSE FirstLine(tree, k - 1) + Height(tree[k - 1])

Sentinel == <<0, 0, 0, 0>>

ArgRef(k, j, e) == [what |-> "arg", func |-> k, decorator |-> j, elem |-> e]
ArgumentsRef(k) == [what |-> "arguments", func |-> k, decorator |-> 0, elem |-> 0]

\* node.absolute_bounding_box: 1-based line and columns of the first and the
\* last character of the node in the rendered file.
BoundingBox(tree, ref) ==
    LET node == tree[ref.func]
    IN  IF ref.what = "arg"
        THEN LET d == node.decorators[ref.decorator]
                 arg == d.call[1]
                 open == 1 + Len(d.name) + 1
                 left == IF arg.type = "list"
                         THEN open + 1 + SumLen(arg.elems, ref.elem - 1) + 1
                         ELSE open + 1
                 line == FirstLine(tree, ref.func) + ref.decorator - 1
             IN  [top |-> line, left |-> left, bottom |-> line,
                  right |-> left + Len(arg.elems[ref.elem]) - 1]
        ELSE LET left == 4 + Len(node.name) + 1 + 1
                 line == FirstLine(tree, ref.func) + Len(node.decorators)
             IN  [top |-> line, left |-> left, bottom |-> line,
                  right |-> left + Len(Join(node.arguments, CommaSpace)) - 1]

\* _span_for_node(node, False)
span_for_node(file, ref) ==
    IF file.has_box
    THEN LET box == BoundingBox(file.py_tree, ref)
         IN  <<box.top, Max(0, box.left - 1), box.bottom, Max(0, box.right)>>
    ELSE Sentinel

----------------------------------------------------------------------------
(* Refactoring *)

NoMatch == [status |-> "none", func |-> 0, decorator |-> 0, elem |-> 0]

\* The index of the last occurrence instead of the first.
LastIndexIn(list, text) ==
    LET hits == {i \in 1..Len(list) : list[i] = text}
    IN  IF hits = {} THEN 0 ELSE CHOOSE i \in hits : \A h \in hits : i >= h

\* step.index(step_text), 1-based; 0 when step_text is not in step.
IndexIn(list, text) ==
    LET hits == {i \in 1..Len(list) : list[i] = text}
    IN  IF hits = {} THEN 0 ELSE CHOOSE i \in hits : \A h \in hits : i <= h

RECURSIVE FindFrom(_, _, _, _)
FindFrom(tree, pairs, i, step_text) ==
    IF i > Len(pairs) THEN [match |-> NoMatch, errors |-> <<>>]
    ELSE LET p == pairs[i]
             d == DecoratorAt(tree, p)
             r == step_decorator_args(d)
             errs == LogEntries(p, r.errors)
         IN  IF Len(d.call) = 0
             THEN [match |-> [NoMatch EXCEPT !.status = "IndexError"], errors |-> errs]
             ELSE IF r.step.kind = "str" /\ r.step.str = step_text
             THEN [match |-> [status |-> "found", func |-> p.func,
                              decorator |-> p.decorator, elem |-> 1],
                   errors |-> errs]
             ELSE IF r.step.kind = "list" /\ IndexIn(r.step.list, step_text) # 0
             THEN [match |-> [status |-> "found", func |-> p.func,
                              decorator |-> p.decorator,
                              elem |-> IndexIn(r.step.list, step_text)],
                   errors |-> errs]
             ELSE LET rest == FindFrom(tree, pairs, i + 1, step_text)
                  IN  [rest EXCEPT !.errors = errs \o @]

\* _find_step_node: the first step node whose text is step_text, or the
\* IndexError of decorator.call.value[0] on a call without arguments.
find_step_node(file, step_text) ==
    FindFrom(file.py_tree, iter_step_func_decorators(file.py_tree), 1, step_text)

\* The check without the comparison of the lengths.
ParametersUnmovedAnyLength(old_params, move) ==
    \A i \in 1..Len(move) : move[i] = i - 1

\* len(old_params) == len(move_param_from_idx) and all(i == v ...)
ParametersUnmoved(old_params, move) ==
    /\ Len(old_params) = Len(move)
    /\ \A i \in 1..Len(move) : move[i] = i - 1

\* The names of the new parameter list; move holds 0-based positions.
NewParams(old_params, move) ==
    [i \in 1..Len(move) |->
        IF move[i] < 0 THEN ArgName(i - 1) ELSE old_params[move[i] + 1]]

RECURSIVE SplitArguments(_, _)
\* The argument nodes of a parameter list given as text.
SplitArguments(s, cur) ==
    IF s = <<>> THEN (IF cur = <<>> THEN <<>> ELSE <<cur>>)
    ELSE IF Head(s) = "," THEN <<cur>> \o SplitArguments(Tail(s), <<>>)
    ELSE IF Head(s) = " " THEN SplitArguments(Tail(s), cur)
    ELSE SplitArguments(Tail(s), cur \o <<Head(s)>>)

Returned(diffs) == [status |-> "returned", diffs |-> diffs, yielded |-> <<>>]
RaisedIndexError == [status |-> "IndexError", diffs |-> <<>>, yielded |-> <<>>]

Outcome(file, res, errors) == [file |-> file, result |-> res, errors |-> errors]

\* The source text of the located step node, and the file with it replaced.
StepValue(file, m) ==
    file.py_tree[m.func].decorators[m.decorator].call[1].elems[m.elem]

SetStepValue(file, m, value) ==
    [file EXCEPT !.py_tree[m.func].decorators[m.decorator].call[1].elems[m.elem] = value]

\* func.arguments = text, and func.arguments.dumps()
SetArguments(file, k, text) ==
    [file EXCEPT !.py_tree[k].arguments = SplitArguments(text, <<>>)]

DumpArguments(file, k) == Join(file.py_tree[k].arguments, CommaSpace)

ParamsEdited(file, k, params_span, diffs, errors) ==
    Outcome(file,
            Returned(diffs \o <<[span |-> params_span, text |-> DumpArguments(file, k)]>>),
            errors)

\* The parameters are moved: old_params[move_from] raises IndexError past the
\* end of the old parameters, after the step text was already replaced.
MoveParams(file, k, move, diffs, errors) ==
    IF \E i \in 1..Len(move) : move[i] >= Len(file.py_tree[k].arguments)
    THEN Outcome(file, RaisedIndexError, errors)
    ELSE ParamsEdited(
            SetArguments(file, k,
                         Join(NewParams(file.py_tree[k].arguments, move), CommaSpace)),
            k, span_for_node(file, ArgumentsRef(k)), diffs, errors)

StepEdited(file, k, move, diffs, errors) ==
    IF ParametersUnmoved(file.py_tree[k].arguments, move)
    THEN Outcome(file, Returned(diffs), errors)
    ELSE MoveParams(file, k, move, diffs, errors)

\* The span of the step node taken after its text was replaced.
EditStepSpanAfter(file, m, step_span, value, move, errors) ==
    StepEdited(SetStepValue(file, m, value), m.func, move,
               <<[span |-> span_for_node(SetStepValue(file, m, value),
                                         ArgRef(m.func, m.decorator, m.elem)),
                  text |-> value]>>, errors)

EditStep(file, m, step_span, value, move, errors) ==
    StepEdited(SetStepValue(file, m, value), m.func, move,
               <<[span |-> step_span, text |-> value]>>, errors)

Located(file, f, old_text, new_text, move) ==
    IF f.match.status = "IndexError" THEN Outcome(file, RaisedIndexError, f.errors)
    ELSE IF f.match.status = "none" THEN Outcome(file, Returned(<<>>), f.errors)
    ELSE EditStep(file, f.match,
                  span_for_node(file, ArgRef(f.match.func, f.match.decorator, f.match.elem)),
                  Replace(StepValue(file, f.match), old_text, new_text),
                  move, f.errors)

\* refactor_step: the file after the call, what the call returned or raised,
\* and the errors logged.
refactor_step(file, old_text, new_text, move) ==
    Located(file, find_step_node(file, old_text), old_text, new_text, move)

----------------------------------------------------------------------------
(* Files *)

StringArg(src) == [type |-> "string", elems |-> <<src>>]
ListArg(srcs) == [type |-> "list", elems |-> srcs]
IntArg == [type |-> "int", elems |-> <<<<"1">>>>]
DictArg == [type |-> "dict", elems |-> <<<<"{", "}">>>>]
NameArg == [type |-> "name", elems |-> <<<<"a">>>>]

Step(args) == [name |-> StepName, call |-> args]
Other == [name |-> OtherName, call |-> <<>>]

Def(decorators, arguments) ==
    [type |-> "def", decorators |-> decorators, arguments |-> arguments]
Class(decorators) ==
    [type |-> "class", decorators |-> decorators, arguments |-> <<>>]

AB == <<<<"a">>, <<"b">>>>

\* The top-level nodes a file is made of.
Shapes ==
    { Def(<<Step(<<StringArg(Lit(A))>>)>>, AB),
      Def(<<Step(<<StringArg(Lit(A))>>)>>, <<>>),
      Def(<<Step(<<StringArg(ULit(U))>>)>>, AB),
      Def(<<Step(<<StringArg(Lit(NoText))>>)>>, <<>>),
      Def(<<Step(<<ListArg(<<Lit(U), Lit(A), Lit(A)>>)>>)>>, AB),
      Def(<<Step(<<ListArg(<<>>)>>)>>, <<>>),
      Def(<<Step(<<>>)>>, AB),
      Def(<<Step(<<IntArg>>)>>, <<>>),
      Def(<<Step(<<DictArg>>)>>, <<>>),
      Def(<<Step(<<NameArg>>)>>, <<>>),
      Def(<<Step(<<StringArg(Lit(A)), StringArg(Lit(U))>>)>>, <<>>),
      Def(<<Other, Step(<<StringArg(Lit(U))>>)>>, AB),
      Def(<<Step(<<IntArg>>), Step(<<StringArg(Lit(A))>>)>>, <<>>),
      Def(<<>>, AB),
      Class(<<Step(<<StringArg(Lit(A))>>)>>) }

\* The shapes of the files the loader reads.
LoaderShapes ==
    { Def(<<Step(<<StringArg(Lit(A))>>)>>, AB),
      Def(<<Step(<<ListArg(<<Lit(U), Lit(A), Lit(A)>>)>>)>>, AB),
      Def(<<Step(<<>>)>>, AB) }

FuncName(k) == <<"f">> \o Decimal(k)

Named(shapes) ==
    [k \in 1..Len(shapes) |->
        [type |-> shapes[k].type, name |-> FuncName(k),
         decorators |-> shapes[k].decorators, arguments |-> shapes[k].arguments]]

TreesOf(shapes) == {Named(s) : s \in UNION {[1..n -> shapes] : n \in 0..MaxNodes}}

Trees == TreesOf(Shapes)
LoaderTrees == TreesOf(LoaderShapes)

Path(name, ext) == [dir |-> "step_impl", name |-> name, ext |-> ext]
NoPath == [dir |-> "", name |-> "", ext |-> ""]

PathA == Path("a", ".py")
PathB == Path("b", ".py")
Notes == Path("notes", ".txt")

FilePaths == {PathA, PathB}

\* RedbaronPythonFile(file_path, py_tree); has_box tells whether RedBaron
\* gave the nodes of the tree their absolute_bounding_box.
RedbaronPythonFile(file_path, py_tree, has_box) ==
    [file_path |-> file_path, py_tree |-> py_tree, has_box |-> has_box]

NoFile == [file_path |-> NoPath, py_tree |-> <<>>, has_box |-> FALSE]

OldTexts == {NoText, A, U}
NewTexts == {NoText, AA, <<Quote>>}
Moves == {<<>>, <<0>>, <<-1>>, <<0, 1>>, <<1, 0>>, <<-1, 0>>, <<0, 1, -1>>}

NoCall == [op |-> "parse", old_text |-> <<>>, new_text |-> <<>>,
           move_param_from_idx |-> <<>>, file_path |-> NoPath]
NoResult == [status |-> "none", diffs |-> <<>>, yielded |-> <<>>]

----------------------------------------------------------------------------
(* The parsed file: refactoring and discovery *)

Init ==
    /\ pf \in {RedbaronPythonFile(PathA, t, b) : t \in Trees, b \in BOOLEAN}
    /\ before = pf.py_tree
    /\ call = NoCall
    /\ result = NoResult
    /\ log = <<>>
    /\ registry = <<>>
    /\ lastGood = [p \in FilePaths |-> NoFile]

\* The state after a call of refactor_step that ended as r.
Refactor(old_text, new_text, move, r) ==
    /\ call.op = "parse"
    /\ pf' = r.file
    /\ result' = r.result
    /\ log' = r.errors
    /\ before' = pf.py_tree
    /\ call' = [NoCall EXCEPT !.op = "refactor_step", !.old_text = old_text,
                              !.new_text = new_text, !.move_param_from_idx = move]
    /\ UNCHANGED <<registry, lastGood>>

RefactorStep(old_text, new_text, move) ==
    Refactor(old_text, new_text, move, refactor_step(pf, old_text, new_text, move))

\* The state after iter_steps was consumed with outcome r.
Iterate(r) ==
    /\ call.op # "iter_steps"
    /\ result' = [status |-> "returned", diffs |-> <<>>, yielded |-> r.yielded]
    /\ log' = r.errors
    /\ before' = pf.py_tree
    /\ call' = [NoCall EXCEPT !.op = "iter_steps"]
    /\ UNCHANGED <<pf, registry, lastGood>>

IterSteps == Iterate(iter_steps(pf))

Next ==
    \/ \E old_text \in OldTexts, new_text \in NewTexts, move \in Moves :
            RefactorStep(old_text, new_text, move)
    \/ IterSteps

Spec == Init /\ [][Next]_vars

----------------------------------------------------------------------------
(* The loader: the registry of the steps of every file *)

Source(tree) == [kind |-> "source", tree |-> tree]
Invalid == [kind |-> "invalid", tree |-> <<>>]
Unreadable == [kind |-> "unreadable", tree |-> <<>>]
NoContent == [kind |-> "none", tree |-> <<>>]

LoaderContents == {Source(t) : t \in LoaderTrees} \cup {Invalid}
\* What a file of the directory holds when it is read: nothing readable,
\* text that does not parse, or a file of at most one node.
OnDisk == {Unreadable, Invalid} \cup {Source(t) : t \in {u \in LoaderTrees : Len(u) <= 1}}

FailedToParse == "Failed to parse"

\* RedbaronPythonFile.parse: the file, or nothing and one logged error when
\* the file cannot be read or its text cannot be parsed.
parse(file_path, content, on_disk) ==
    LET text == IF content = NoContent THEN on_disk ELSE content
    IN  IF text.kind = "source"
        THEN [ok |-> TRUE, file |-> RedbaronPythonFile(file_path, text.tree, TRUE),
              errors |-> <<>>]
        ELSE [ok |-> FALSE, file |-> NoFile,
              errors |-> <<[func |-> 0, msg |-> FailedToParse]>>]

\* registry.add_step and registry.remove_steps
add_step(reg, steps, func, file_path, span) ==
    Append(reg, [steps |-> steps, func |-> func, file_path |-> file_path, span |-> span])

remove_steps(reg, file_path) ==
    LET Kept(e) == e.file_path # file_path IN SelectSeq(reg, Kept)

RECURSIVE AddSteps(_, _)
AddSteps(reg, steps) ==
    IF steps = <<>> THEN reg
    ELSE AddSteps(add_step(reg, Head(steps).steps, Head(steps).func,
                           Head(steps).file_path, Head(steps).span),
                  Tail(steps))

load_steps(reg, python_file) == AddSteps(reg, iter_steps(python_file).yielded)

\* The reload that does not remove the steps the file had.
ReloadedOverOld(reg, file_path, parsed) ==
    [registry |-> IF parsed.ok THEN load_steps(reg, parsed.file) ELSE reg,
     parsed |-> parsed,
     errors |-> parsed.errors \o (IF parsed.ok THEN iter_steps(parsed.file).errors ELSE <<>>)]

Reloaded(reg, file_path, parsed) ==
    [registry |-> IF parsed.ok
                  THEN load_steps(remove_steps(reg, file_path), parsed.file)
                  ELSE reg,
     parsed |-> parsed,
     errors |-> parsed.errors \o (IF parsed.ok THEN iter_steps(parsed.file).errors ELSE <<>>)]

reload_steps(reg, file_path, content, on_disk) ==
    Reloaded(reg, file_path, parse(file_path, content, on_disk))

\* load_files: the files of the directory in the order of the walk, those
\* whose name ends with .py parsed from the disk and loaded.
RECURSIVE LoadFrom(_, _, _, _)
LoadFrom(reg, files, disk, i) ==
    IF i > Len(files) THEN reg
    ELSE IF files[i].ext = ".py" /\ parse(files[i], NoContent, disk[files[i]]).ok
         THEN LoadFrom(load_steps(reg, parse(files[i], NoContent, disk[files[i]]).file),
                       files, disk, i + 1)
         ELSE LoadFrom(reg, files, disk, i + 1)

load_files(files, disk) == LoadFrom(<<>>, files, disk, 1)

Walk == <<PathA, Notes, PathB>>

LastParsed(disk) ==
    [p \in FilePaths |-> parse(p, NoContent, disk[p]).file]

InitLoader ==
    /\ \E disk \in [{PathA, PathB, Notes} -> OnDisk] :
          /\ disk[Notes] = Source(<<>>)
          /\ registry = load_files(Walk, disk)
          /\ lastGood = LastParsed(disk)
    /\ pf = NoFile
    /\ before = <<>>
    /\ call = [NoCall EXCEPT !.op = "load_files"]
    /\ result = Returned(<<>>)
    /\ log = <<>>

\* The state after a call of reload_steps that ended as r.
Reload(file_path, r) ==
    /\ registry' = r.registry
    /\ pf' = r.parsed.file
    /\ log' = r.errors
    /\ lastGood' = IF r.parsed.ok
                   THEN [lastGood EXCEPT ![file_path] = r.parsed.file]
                   ELSE lastGood
    /\ call' = [NoCall EXCEPT !.op = "reload_steps", !.file_path = file_path]
    /\ result' = Returned(<<>>)
    /\ UNCHANGED before

ReloadSteps(file_path, content, on_disk) ==
    Reload(file_path, reload_steps(registry, file_path, content, on_disk))

NextLoader ==
    \/ \E file_path \in FilePaths, content \in LoaderContents :
            ReloadSteps(file_path, content, Unreadable)
    \/ \E file_path \in FilePaths, on_disk \in OnDisk :
            ReloadSteps(file_path, NoContent, on_disk)

SpecLoader == InitLoader /\ [][NextLoader]_vars

----------------------------------------------------------------------------
(* Properties of refactor_step *)

Refactored == call.op = "refactor_step"
OldText == call.old_text
NewText == call.new_text
Move == call.move_param_from_idx

\* The file as it was when refactor_step was called, and what it located.
BeforeFile == [pf EXCEPT !.py_tree = before]
Match == find_step_node(BeforeFile, OldText).match
Found == Refactored /\ Match.status = "found"

OldParams == before[Match.func].arguments
NowParams == pf.py_tree[Match.func].arguments

IdentityOver(n) == [i \in 1..n |-> i - 1]
IsIdentity == Move = IdentityOver(Len(OldParams))
InBounds == \A i \in 1..Len(Move) : Move[i] < Len(OldParams)

\* The top-level functions with a step decorator, and the value the first
\* step decorator of such a function resolves to.
StepFuncs(tree) ==
    {k \in 1..Len(tree) :
        /\ tree[k].type = "def"
        /\ \E j \in 1..Len(tree[k].decorators) : tree[k].decorators[j].name = StepName}

Resolved(node) == step_decorator_args(node.decorators[FirstStepDecorator(node)]).step

ResolvesTo(node, text) ==
    \/ Resolved(node) = PyStr(text)
    \/ /\ Resolved(node).kind = "list"
       /\ \E i \in 1..Len(Resolved(node).list) : Resolved(node).list[i] = text

InvalidArguments(node) ==
    LET args == node.decorators[FirstStepDecorator(node)].call
    IN  \/ Len(args) # 1
        \/ args[1].type \in {"int", "dict", "name"}
        \/ to_python(args[1]).kind \notin {"str", "list"}

\* C1 as stated: an identity remap over the old parameters gives one edit and
\* leaves the parameters alone, every other remap gives two edits.
C1_Original ==
    Found =>
        /\ result.status = "returned"
        /\ IF IsIdentity
           THEN Len(result.diffs) = 1 /\ NowParams = OldParams
           ELSE Len(result.diffs) = 2

\* C1: an identity remap over the old parameters gives exactly the step-text
\* edit and leaves the parameters alone; every other remap whose entries are
\* all below the number of old parameters gives exactly two edits.
C1_IdentityRemap ==
    Found =>
        IF IsIdentity
        THEN result.status = "returned" /\ Len(result.diffs) = 1 /\ NowParams = OldParams
        ELSE InBounds => result.status = "returned" /\ Len(result.diffs) = 2

C1_Witness ==
    /\ Found
    /\ Move = <<0, 1>>
    /\ OldParams = AB
    /\ Len(result.diffs) = 1

ExpectedName(i) ==
    IF Move[i] < 0 THEN <<"a", "r", "g", DigitChars[i + 1]>> ELSE OldParams[Move[i] + 1]

Remapped == Found /\ ~IsIdentity /\ InBounds

RemapRule ==
    Remapped =>
        /\ result.status = "returned"
        /\ Len(result.diffs) = 2
        /\ Len(NowParams) = Len(Move)
        /\ \A i \in 1..Len(Move) : NowParams[i] = ExpectedName(i)
        /\ result.diffs[2].text = Join([i \in 1..Len(Move) |-> ExpectedName(i)], CommaSpace)

RemapExample == Found /\ Move = <<-1, 0>> /\ OldParams = AB

\* C2 as stated: the remap rule, and [-1, 0] on (a, b) gives 'arg1, b'.
C2_Original ==
    /\ RemapRule
    /\ RemapExample =>
          result.diffs[2].text = <<"a", "r", "g", "1", ",", " ", "b">>

\* C2: a remap in bounds makes the parameter list the names arg{i+1} for the
\* negative entries and the old names at the other entries, joined by ', '
\* in the second edit; [-1, 0] on (a, b) gives 'arg1, a'.
C2_Remap ==
    /\ RemapRule
    /\ RemapExample =>
          result.diffs[2].text = <<"a", "r", "g", "1", ",", " ", "a">>

C2_Witness ==
    /\ RemapExample
    /\ Len(result.diffs) = 2
    /\ NowParams = <<<<"a", "r", "g", "1">>, <<"a">>>>

\* C3: when no step function of the file resolves to old_text, refactor_step
\* returns no edit and the tree is as it was.
C3_NoMatchNoOp ==
    (Refactored /\ \A k \in StepFuncs(before) : ~ResolvesTo(before[k], OldText)) =>
        /\ result = Returned(<<>>)
        /\ pf.py_tree = before

\* C5: a step function with invalid decorator arguments before the first
\* function whose step is old_text does not keep refactor_step from finding
\* and rewriting that function, and nothing is raised; nor does it keep
\* iter_steps from yielding the later functions.
C5_ScanContinues ==
    /\ Refactored =>
        \A k \in StepFuncs(before) :
            ( /\ ResolvesTo(before[k], OldText)
              /\ \A h \in StepFuncs(before) : h < k => ~ResolvesTo(before[h], OldText)
              /\ \E h \in StepFuncs(before) : h < k /\ InvalidArguments(before[h])
              /\ \A i \in 1..Len(Move) : Move[i] < Len(before[k].arguments) )
            => /\ result.status = "returned"
               /\ Len(result.diffs) >= 1
               /\ Match.func = k
    /\ call.op = "iter_steps" =>
        \A k \in StepFuncs(pf.py_tree) :
            ( /\ ~InvalidArguments(pf.py_tree[k])
              /\ Truthy(Resolved(pf.py_tree[k]))
              /\ \E h \in StepFuncs(pf.py_tree) : h < k /\ InvalidArguments(pf.py_tree[h]) )
            => \E i \in 1..Len(result.yielded) : result.yielded[i].span = k

\* Index of the first element of the located list whose value is old_text.
FirstOccurrence ==
    LET elems == before[Match.func].decorators[Match.decorator].call[1].elems
        hits == {i \in 1..Len(elems) : StringToPython(elems[i]) = PyStr(OldText)}
    IN  CHOOSE i \in hits : \A h \in hits : i <= h

InList == Found /\ before[Match.func].decorators[Match.decorator].call[1].type = "list"

ElementsOf(tree) == tree[Match.func].decorators[Match.decorator].call[1].elems

\* C7: a match inside a list rewrites the element at the first occurrence of
\* old_text and nothing else: the other elements, the other nodes, the rest
\* of the function and, under an identity remap, its parameters; the step
\* edit has the span of that element.
C7_ListElement ==
    InList =>
        /\ Match.elem = FirstOccurrence
        /\ Len(ElementsOf(pf.py_tree)) = Len(ElementsOf(before))
        /\ \A i \in 1..Len(ElementsOf(before)) :
              i # FirstOccurrence => ElementsOf(pf.py_tree)[i] = ElementsOf(before)[i]
        /\ \A k \in 1..Len(before) : k # Match.func => pf.py_tree[k] = before[k]
        /\ Len(pf.py_tree) = Len(before)
        /\ pf.py_tree[Match.func].name = before[Match.func].name
        /\ Len(pf.py_tree[Match.func].decorators) = Len(before[Match.func].decorators)
        /\ \A j \in 1..Len(before[Match.func].decorators) :
              j # Match.decorator =>
                  pf.py_tree[Match.func].decorators[j] = before[Match.func].decorators[j]
        /\ IsIdentity => NowParams = OldParams
        /\ result.status = "returned" =>
              /\ result.diffs[1].span =
                    span_for_node(BeforeFile, ArgRef(Match.func, Match.decorator, FirstOccurrence))
              /\ pf.has_box =>
                    result.diffs[1].span[4] - result.diffs[1].span[2]
                        = Len(ElementsOf(before)[FirstOccurrence])

\* @step(['u', 'a', 'a']) on line 1: 'a' is first at columns 12 to 15.
C7_Witness ==
    /\ InList
    /\ Match.func = 1
    /\ OldText = A
    /\ NewText = AA
    /\ pf.has_box
    /\ result.status = "returned"
    /\ result.diffs[1] = [span |-> <<1, 12, 1, 15>>, text |-> Lit(AA)]
    /\ ElementsOf(pf.py_tree) = <<Lit(U), Lit(AA), Lit(A)>>

Start(span) == <<span[1], span[2]>>
End(span) == <<span[3], span[4]>>
Precedes(p, q) == p[1] < q[1] \/ (p[1] = q[1] /\ p[2] < q[2])
Overlap(s, t) == Precedes(Start(s), End(t)) /\ Precedes(Start(t), End(s))

\* C8: refactor_step returns no edit, the step-text edit, or the step-text
\* edit and then the parameter-list edit; the spans are those of the step
\* node and of the parameter list in the file as it was before the call,
\* and they do not overlap.
C8_Edits ==
    (Refactored /\ result.status = "returned") =>
        /\ Len(result.diffs) \in 0..2
        /\ Len(result.diffs) >= 1 =>
              /\ Match.status = "found"
              /\ result.diffs[1].span =
                    span_for_node(BeforeFile, ArgRef(Match.func, Match.decorator, Match.elem))
              /\ result.diffs[1].text = StepValue(pf, Match)
        /\ Len(result.diffs) = 2 =>
              /\ result.diffs[2].span = span_for_node(BeforeFile, ArgumentsRef(Match.func))
              /\ result.diffs[2].text = DumpArguments(pf, Match.func)
              /\ ~Overlap(result.diffs[1].span, result.diffs[2].span)

\* @step('a') above def f1(a, b): the literal is at columns 6 to 9 of line
\* 1, the parameters at columns 7 to 11 of line 2.
C8_Witness ==
    /\ Found
    /\ pf.has_box
    /\ NewText = AA
    /\ result.status = "returned"
    /\ Len(result.diffs) = 2
    /\ result.diffs[1] = [span |-> <<1, 6, 1, 9>>, text |-> Lit(AA)]
    /\ result.diffs[2].span = <<2, 7, 2, 11>>

\* C10: after refactor_step located old_text, the located occurrence (the
\* string, or the element of the list) resolves to new_text.
C10_ResolvesToNewText ==
    Found =>
        LET now == Resolved(pf.py_tree[Match.func])
        IN  IF before[Match.func].decorators[Match.decorator].call[1].type = "list"
            THEN now.kind = "list" /\ now.list[Match.elem] = NewText
            ELSE now = PyStr(NewText)

----------------------------------------------------------------------------
(* Properties of iter_steps *)

Iterated == call.op = "iter_steps"

YieldedFor(k) == {i \in 1..Len(result.yielded) : result.yielded[i].span = k}
LoggedFor(k) == {i \in 1..Len(log) : log[i].func = k}

\* C4: a step function whose decorator call has no or several arguments, or
\* one argument that is not a string or list literal, yields no record and
\* logs exactly one error in a scan.
C4_InvalidArguments ==
    Iterated =>
        \A k \in StepFuncs(pf.py_tree) :
            InvalidArguments(pf.py_tree[k]) =>
                /\ YieldedFor(k) = {}
                /\ Cardinality(LoggedFor(k)) = 1

\* @step() above f1 and @step(1) above f2: two errors, nothing yielded.
C4_Witness ==
    /\ Iterated
    /\ Len(pf.py_tree) = 2
    /\ pf.py_tree[1].decorators = <<Step(<<>>)>>
    /\ pf.py_tree[2].decorators = <<Step(<<IntArg>>)>>
    /\ result.yielded = <<>>
    /\ log = <<[func |-> 1, msg |-> OneArgument], [func |-> 2, msg |-> StringOrList]>>

NonEmpty(v) ==
    \/ v.kind = "str" /\ v.str # <<>>
    \/ v.kind = "list" /\ v.list # <<>>

\* The scan yielded one record for each function of S and no other, in
\* source order, with the resolved step, the name and the file path.
YieldedExactly(S) ==
    /\ \A k \in S : Cardinality(YieldedFor(k)) = 1
    /\ \A i \in 1..Len(result.yielded) : result.yielded[i].span \in S
    /\ \A i, j \in 1..Len(result.yielded) :
          i < j => result.yielded[i].span < result.yielded[j].span
    /\ \A i \in 1..Len(result.yielded) :
          LET node == pf.py_tree[result.yielded[i].span]
          IN  /\ result.yielded[i].steps = Resolved(node)
              /\ result.yielded[i].func = node.name
              /\ result.yielded[i].file_path = pf.file_path

\* C6 as stated: one record for every step function whose argument resolves
\* to a string or a list, the empty ones included.
C6_Original ==
    Iterated =>
        YieldedExactly({k \in StepFuncs(pf.py_tree) :
                            Resolved(pf.py_tree[k]).kind \in {"str", "list"}})

\* C6: one record, in source order, for every top-level function whose first
\* step decorator resolves to a non-empty string or a non-empty list, and
\* for no other function; a function left out for an empty step logs nothing.
C6_Discovery ==
    Iterated =>
        /\ YieldedExactly({k \in StepFuncs(pf.py_tree) : NonEmpty(Resolved(pf.py_tree[k]))})
        /\ \A k \in StepFuncs(pf.py_tree) :
              ~InvalidArguments(pf.py_tree[k]) => LoggedFor(k) = {}

\* @step('') above f1 is left out, @step(['u', 'a', 'a']) above f2 is yielded.
C6_Witness ==
    /\ Iterated
    /\ Len(pf.py_tree) = 2
    /\ pf.py_tree[1].decorators = <<Step(<<StringArg(Lit(NoText))>>)>>
    /\ result.yielded = <<[steps |-> PyList(<<U, A, A>>), func |-> <<"f", "2">>,
                           file_path |-> PathA, span |-> 2]>>
    /\ log = <<>>

----------------------------------------------------------------------------
(* Properties of reload_steps *)

EntriesFor(reg, file_path) ==
    LET Of(e) == e.file_path = file_path IN SelectSeq(reg, Of)

\* C9: a call of reload_steps raises nothing; when the content does not
\* parse the registry is as it was; otherwise the entries of the file are
\* the steps of that content; the entries of the other files are as they
\* were, and every file's entries are the steps of its last parsed content.
C9_Reload ==
    [][call'.op = "reload_steps" =>
        /\ result'.status = "returned"
        /\ pf' = NoFile => registry' = registry
        /\ pf' # NoFile =>
              /\ pf'.file_path = call'.file_path
              /\ EntriesFor(registry', call'.file_path) = iter_steps(pf').yielded
        /\ \A q \in FilePaths \ {call'.file_path} :
              EntriesFor(registry', q) = EntriesFor(registry, q)
        /\ \A q \in FilePaths :
              EntriesFor(registry', q) = iter_steps(lastGood'[q]).yielded
        /\ Len(registry') = Len(EntriesFor(registry', PathA)) + Len(EntriesFor(registry', PathB))
    ]_vars

\* a.py reloaded over its earlier steps while b.py keeps its own.
C9_Witness ==
    /\ call.op = "reload_steps"
    /\ call.file_path = PathA
    /\ pf # NoFile
    /\ Len(registry) = 3
    /\ registry[1].file_path = PathB
    /\ registry[2].file_path = PathA
    /\ registry[3].file_path = PathA

====
